---- MODULE Spec2Model ----
\* Verification model of gomu-gomu-no-gatling's chain-interaction helpers:
\*   get_blocks_with_txs  (src/src/utils.rs:181-225)  bounded block fetcher
\*   wait_for_tx          (src/src/utils.rs:120-175)  confirmation poller
\*   compute_contract_address (src/src/utils.rs:46-58) address deriver
\*   shoot, make_report_over_bench (src/src/actions/mod.rs:15-98) benchmark run
\*   sanitize_filename    (src/src/utils.rs:228-254)  report file names
EXTENDS Integers, Sequences, FiniteSets, TLC

\* ------------------------------------------------------------------
\* State: one group of variables per function under study. A specification runs
\* one function and leaves the other groups at rest.
\* ------------------------------------------------------------------
\* get_blocks_with_txs
VARIABLES
    block_range,   \* the input iterator, as the sequence of heights it yields
    next,          \* number of heights the for loop has taken from block_range
    running,       \* join_set: spawned tasks whose query is outstanding, per height
    ready,         \* join_set: finished tasks not yet returned by join_next, oldest first
    results,       \* the local Vec results
    fpc,           \* "for" | "drain" | "done"
    fret,          \* "none" | "Ok" | "Err"
    returned,      \* the Vec inside Ok(..); <<>> when nothing was returned
    queried,       \* ghost: per position of block_range, number of queries issued
    delivered,     \* ghost: kinds of task outputs the tasks have produced so far
    observed,      \* ghost: kind of the first failure join_next handed to the fetcher
    joined,        \* ghost: the task outputs join_next handed over, in order
    abandoned      \* ghost: queries still outstanding when the JoinSet was dropped

fvars == <<block_range, next, running, ready, results, fpc, fret, returned,
           queried, delivered, observed, joined, abandoned>>

\* wait_for_tx
VARIABLES
    tx_hash,         \* argument
    check_interval,  \* argument, seconds
    elapsed,         \* start.elapsed(), seconds
    wpc,             \* "check" | "query" | "sleep" | "done"
    outcome,         \* what the session ended in
    lastResp,        \* ghost: the response of the latest receipt query
    hist,            \* ghost: the first MaxHist responses, in order
    advanced         \* ghost: the latest step took a positive amount of time

wvars == <<tx_hash, check_interval, elapsed, wpc, outcome, lastResp, hist, advanced>>

\* compute_contract_address
VARIABLES
    salt,                  \* argument
    class_hash,            \* argument
    constructor_calldata,  \* argument
    address,               \* the returned FieldElement
    apc                    \* "call" | "done"

avars == <<salt, class_hash, constructor_calldata, address, apc>>

\* shoot
VARIABLES
    chain_height,  \* what rpc_client.block_number() currently answers
    run_erc20,     \* config.run.num_erc20_transfers != 0
    run_erc721,    \* config.run.num_erc721_mints != 0
    spc,           \* position in shoot / make_report_over_bench
    start_block,   \* shoot's start_block
    end_block,     \* shoot's end_block
    bench_start,   \* make_report_over_bench's start_block
    windows,       \* per benchmark, the range handed to with_block_range, <<>> before
    sret           \* "none" | "Ok" | "Err"

svars == <<chain_height, run_erc20, run_erc721, spc, start_block, end_block,
           bench_start, windows, sret>>

\* sanitize_filename
VARIABLES
    input,      \* argument, as a sequence of characters
    sanitized,  \* what the call produced: a String, or a panic
    zpc         \* "call" | "done"

zvars == <<input, sanitized, zpc>>

vars == <<fvars, wvars, avars, svars, zvars>>

\* what the steps of each function leave alone
NotFetch == <<wvars, avars, svars, zvars>>
NotWait == <<fvars, avars, svars, zvars>>
NotAddr == <<fvars, wvars, svars, zvars>>
NotShoot == <<fvars, wvars, avars, zvars>>
NotSanitize == <<fvars, wvars, avars, svars>>

\* ------------------------------------------------------------------
\* Bounds of the model (not program constants)
\* ------------------------------------------------------------------
\* largest block height value used in an input sequence (heights are 0..MaxHeight)
MaxHeight == 1
\* short input sequences have every length 0..MaxSmall and every content
MaxSmall == 3
\* long input sequences have lengths MAX_CONCURRENT..MAX_CONCURRENT+MaxOver
MaxOver == 2
\* at most MaxReady tasks are finished and not yet joined at one time
MaxReady == 2

\* ------------------------------------------------------------------
\* get_blocks_with_txs
\* ------------------------------------------------------------------
\* const MAX_CONCURRENT: usize = 50;
MAX_CONCURRENT == 50


Heights == 0..MaxHeight

\* what a spawned task can produce: Ok(Ok(Block)), Ok(Ok(PendingBlock)),
\* Ok(Err(ProviderError)), Err(JoinError)
OutputKinds == {"Block", "PendingBlock", "ProviderError", "JoinError"}

RECURSIVE SumOver(_, _)
SumOver(f, S) ==
    IF S = {} THEN 0
    ELSE LET x == CHOOSE y \in S : TRUE IN f[x] + SumOver(f, S \ {x})

\* number of spawned tasks whose query has not completed
RunningCount == SumOver(running, Heights)

\* join_set.len(): tasks spawned and not yet removed by join_next
join_set_len == RunningCount + Len(ready)

\* number of entries of sequence s whose height is h
CountHeight(s, h) == Cardinality({i \in 1..Len(s) : s[i] = h})

BlockHeights(s) == [i \in 1..Len(s) |-> s[i].height]

\* the input sequences considered: every short one, and long ones around the cap
\* that are all height 0 except possibly one position holding height 1
SmallInputs == UNION {[1..n -> Heights] : n \in 0..MaxSmall}
BigInput(n, p) == [i \in 1..n |-> IF i = p THEN 1 ELSE 0]
BigInputs ==
    UNION {{BigInput(n, p) : p \in {0, 1, n}} :
              n \in MAX_CONCURRENT..(MAX_CONCURRENT + MaxOver)}
Inputs == SmallInputs \cup BigInputs

\* variant of AtCap with an off-by-one comparison (`>` for `>=`)
AtCap_offByOne(len) == len > MAX_CONCURRENT

\* `while join_set.len() >= MAX_CONCURRENT`
AtCap(len) == len >= MAX_CONCURRENT

\* variant of Unwrap that lets a failed query through instead of leaving
Unwrap_swallow(out) == [ok |-> TRUE, val |-> [kind |-> "Block", height |-> out.height]]

\* the `?` operators applied to a joined task output: a JoinError or a
\* ProviderError leaves the function, anything else is the MaybePendingBlockWithTxs
Unwrap(out) ==
    IF out.kind \in {"JoinError", "ProviderError"}
    THEN [ok |-> FALSE, val |-> out]
    ELSE [ok |-> TRUE, val |-> out]

\* variant of match_result that accepts a pending block
match_result_lenient(maybe_block) == [ok |-> TRUE, val |-> maybe_block]

\* fn match_result
match_result(maybe_block) ==
    IF maybe_block.kind = "Block"
    THEN [ok |-> TRUE, val |-> maybe_block]
    ELSE [ok |-> FALSE, val |-> maybe_block]

\* results.push(match_result(next??)?) : the value pushed, or the early return
Collect(out) ==
    LET u == Unwrap(out) IN
    IF u.ok THEN match_result(u.val) ELSE u

FetchInit ==
    /\ block_range \in Inputs
    /\ next = 0
    /\ running = [h \in Heights |-> 0]
    /\ ready = <<>>
    /\ results = <<>>
    /\ fpc = "for"
    /\ fret = "none"
    /\ returned = <<>>
    /\ queried = [i \in 1..Len(block_range) |-> 0]
    /\ delivered = {}
    /\ observed = "none"
    /\ joined = <<>>
    /\ abandoned = 0

\* variant of Spawn that does not advance the iterator
Spawn_noAdvance ==
    /\ fpc = "for"
    /\ next < Len(block_range)
    /\ ~AtCap(join_set_len)
    /\ LET block_number == block_range[next + 1] IN
         /\ running' = [running EXCEPT ![block_number] = @ + 1]
         /\ queried' = [queried EXCEPT ![next + 1] = @ + 1]
    /\ UNCHANGED <<block_range, next, ready, results, fpc, fret, returned, delivered,
                   observed, joined, abandoned>>
    /\ UNCHANGED NotFetch

\* join_set.spawn(..get_block_with_txs(BlockId::Number(block_number))..)
Spawn ==
    /\ fpc = "for"
    /\ next < Len(block_range)
    /\ ~AtCap(join_set_len)
    /\ LET block_number == block_range[next + 1] IN
         /\ running' = [running EXCEPT ![block_number] = @ + 1]
         /\ queried' = [queried EXCEPT ![next + 1] = @ + 1]
    /\ next' = next + 1
    /\ UNCHANGED <<block_range, ready, results, fpc, fret, returned, delivered, observed,
                   joined, abandoned>>
    /\ UNCHANGED NotFetch

\* the for loop ends when the iterator is exhausted
ForDone ==
    /\ fpc = "for"
    /\ next = Len(block_range)
    /\ fpc' = "drain"
    /\ UNCHANGED <<block_range, next, running, ready, results, fret, returned,
                   queried, delivered, observed, joined, abandoned>>
    /\ UNCHANGED NotFetch

\* a spawned query finishes (the node answers, the transport fails, or the task dies)
Complete ==
    /\ fpc # "done"
    /\ Len(ready) < MaxReady
    /\ \E h \in Heights, k \in OutputKinds :
         /\ running[h] > 0
         /\ running' = [running EXCEPT ![h] = @ - 1]
         /\ ready' = Append(ready, [kind |-> k, height |-> h])
         /\ delivered' = delivered \cup {k}
    /\ UNCHANGED <<block_range, next, results, fpc, fret, returned, queried, observed,
                   joined, abandoned>>
    /\ UNCHANGED NotFetch

\* variant of Handle whose tasks are detached: leaving does not abort them
Handle_detached(out) ==
    LET r == Collect(out) IN
    /\ observed' = IF out.kind # "Block" /\ observed = "none" THEN out.kind ELSE observed
    /\ joined' = Append(joined, out)
    /\ IF r.ok
       THEN /\ results' = Append(results, r.val)
            /\ ready' = Tail(ready)
            /\ UNCHANGED <<running, fpc, fret, returned, abandoned>>
       ELSE /\ fpc' = "done"
            /\ fret' = "Err"
            /\ returned' = <<>>
            /\ ready' = Tail(ready)
            /\ UNCHANGED <<running, results, abandoned>>
    /\ UNCHANGED <<block_range, next, queried, delivered>>

\* variant of Handle that inserts each record at the front of results
Handle_pushFront(out) ==
    LET r == Collect(out) IN
    /\ observed' = IF out.kind # "Block" /\ observed = "none" THEN out.kind ELSE observed
    /\ joined' = Append(joined, out)
    /\ IF r.ok
       THEN /\ results' = <<r.val>> \o results
            /\ ready' = Tail(ready)
            /\ UNCHANGED <<running, fpc, fret, returned, abandoned>>
       ELSE /\ fpc' = "done"
            /\ fret' = "Err"
            /\ returned' = <<>>
            /\ running' = [h \in Heights |-> 0]
            /\ ready' = <<>>
            /\ abandoned' = RunningCount
            /\ UNCHANGED results
    /\ UNCHANGED <<block_range, next, queried, delivered>>

\* join_next() handed over `out`: push it or leave with the error; leaving drops
\* the JoinSet, which aborts every task still in it
Handle(out) ==
    LET r == Collect(out) IN
    /\ observed' = IF out.kind # "Block" /\ observed = "none" THEN out.kind ELSE observed
    /\ joined' = Append(joined, out)
    /\ IF r.ok
       THEN /\ results' = Append(results, r.val)
            /\ ready' = Tail(ready)
            /\ UNCHANGED <<running, fpc, fret, returned, abandoned>>
       ELSE /\ fpc' = "done"
            /\ fret' = "Err"
            /\ returned' = <<>>
            /\ running' = [h \in Heights |-> 0]
            /\ ready' = <<>>
            /\ abandoned' = RunningCount
            /\ UNCHANGED results
    /\ UNCHANGED <<block_range, next, queried, delivered>>

\* while join_set.len() >= MAX_CONCURRENT { results.push(match_result(join_next().await...???)?) }
JoinAtCap ==
    /\ fpc = "for"
    /\ next < Len(block_range)
    /\ AtCap(join_set_len)
    /\ ready # <<>>
    /\ Handle(Head(ready))
    /\ UNCHANGED NotFetch

\* while let Some(next) = join_set.join_next().await { results.push(match_result(next??)?) }
JoinDrain ==
    /\ fpc = "drain"
    /\ ready # <<>>
    /\ Handle(Head(ready))
    /\ UNCHANGED NotFetch

\* variant of ReturnOk without the drain loop: returns as soon as the for loop ends
ReturnOk_noDrain ==
    /\ fpc = "drain"
    /\ fpc' = "done"
    /\ fret' = "Ok"
    /\ returned' = results
    /\ running' = [h \in Heights |-> 0]
    /\ ready' = <<>>
    /\ UNCHANGED <<block_range, next, results, queried, delivered, observed,
                   joined, abandoned>>
    /\ UNCHANGED NotFetch

\* variant of ReturnOk in which waiting on the empty set never yields None
ReturnOk_pendsForever ==
    /\ fpc = "drain"
    /\ join_set_len = 0
    /\ UNCHANGED vars

\* join_next() returns None on the empty set: Ok(results)
ReturnOk ==
    /\ fpc = "drain"
    /\ join_set_len = 0
    /\ fpc' = "done"
    /\ fret' = "Ok"
    /\ returned' = results
    /\ UNCHANGED <<block_range, next, running, ready, results, queried, delivered, observed,
                   joined, abandoned>>
    /\ UNCHANGED NotFetch

\* get_blocks_with_txs is not running
FetchIdle ==
    /\ block_range = <<>>
    /\ next = 0
    /\ running = [h \in Heights |-> 0]
    /\ ready = <<>>
    /\ results = <<>>
    /\ fpc = "idle"
    /\ fret = "none"
    /\ returned = <<>>
    /\ queried = <<>>
    /\ delivered = {}
    /\ observed = "none"
    /\ joined = <<>>
    /\ abandoned = 0

FetchNext == Spawn \/ ForDone \/ Complete \/ JoinAtCap \/ JoinDrain \/ ReturnOk


\* ------------------------------------------------------------------
\* Properties of get_blocks_with_txs
\* ------------------------------------------------------------------

\* C1: at no instant are more than 50 (MAX_CONCURRENT) block queries of one
\* invocation issued and not yet completed; the JoinSet itself never holds more
\* than 50 tasks either.
C1_InFlightBounded ==
    /\ RunningCount <= MAX_CONCURRENT
    /\ join_set_len <= MAX_CONCURRENT

\* the cap is reached, was enforced by a join at the cap, and is reached again
C1_Witness ==
    /\ RunningCount = MAX_CONCURRENT
    /\ Len(results) > 0
    /\ next > MAX_CONCURRENT

\* C2: once the invocation has returned and every query that answered gave a
\* finalized block, the return is Ok and holds exactly one record per requested
\* height: same length as the input and the same multiset of heights.
C2_OneRecordPerHeight ==
    (fpc = "done" /\ delivered \subseteq {"Block"}) =>
        /\ fret = "Ok"
        /\ Len(returned) = Len(block_range)
        /\ \A h \in Heights :
              CountHeight(BlockHeights(returned), h) = CountHeight(block_range, h)

\* an Ok return over more heights than the cap, collected out of request order
C2_Witness ==
    /\ fret = "Ok"
    /\ Len(block_range) > MAX_CONCURRENT
    /\ Len(returned) = Len(block_range)
    /\ BlockHeights(returned) # block_range

\* C3: if any query answered with a pending block the invocation never returns
\* Ok; once returned it is an error without a result collection, and no pending
\* block is ever part of the collected or returned records.
C3_PendingFailsWhole ==
    /\ ("PendingBlock" \in delivered) => fret # "Ok"
    /\ ("PendingBlock" \in delivered /\ fpc = "done") => (fret = "Err" /\ returned = <<>>)
    /\ \A i \in 1..Len(results) : results[i].kind = "Block"
    /\ \A i \in 1..Len(returned) : returned[i].kind = "Block"

\* a pending block was joined after finalized blocks had been collected
C3_Witness ==
    /\ observed = "PendingBlock"
    /\ fret = "Err"
    /\ Len(results) > 0
    /\ returned = <<>>

\* C4: the first query failure handed to the fetcher ends the invocation with an
\* error and without results, and no query is issued from then on.
C4_FirstFailureAborts ==
    /\ [](observed # "none" => (fpc = "done" /\ fret = "Err" /\ returned = <<>>))
    /\ [][observed # "none" => (queried' = queried /\ next' = next)]_vars

\* a transport or task failure was joined while results were already collected
\* and heights were still waiting to be issued
C4_Witness ==
    /\ observed \in {"ProviderError", "JoinError"}
    /\ fret = "Err"
    /\ Len(results) > 0
    /\ next < Len(block_range)
    /\ returned = <<>>


\* C11 as stated: no query is ever issued while the result of a completed query
\* is still uncollected.
C11_Original == [][next' # next => ready = <<>>]_vars

\* C11 amended: while the JoinSet holds 50 tasks no query is issued, and every
\* result join_next hands over is validated and collected in that step (a
\* finalized block is pushed, anything else returns the error). Below the cap
\* queries are issued while completed results wait in the JoinSet.
C11_CollectsBeforeIssuingAtCap ==
    /\ [][(fpc = "for" /\ join_set_len >= MAX_CONCURRENT) => next' = next]_vars
    /\ [][joined' # joined =>
            IF Head(ready).kind = "Block"
            THEN results' = Append(results, Head(ready)) /\ fret' = "none"
            ELSE fret' = "Err" /\ fpc' = "done"]_vars

\* one result was collected at the cap, the next query was issued after it, and
\* a completed result is waiting while the loop goes on
C11_Witness ==
    /\ fpc = "for"
    /\ next = MAX_CONCURRENT + 1
    /\ Len(joined) = 1
    /\ Len(results) = 1
    /\ ready # <<>>

\* C12: no position of the input is queried twice, the positions queried are
\* exactly those the for loop has passed, and an Ok return has queried every
\* position exactly once.
C12_QueriedExactlyOnce ==
    /\ \A i \in 1..Len(block_range) : queried[i] = (IF i <= next THEN 1 ELSE 0)
    /\ fret = "Ok" => \A i \in 1..Len(block_range) : queried[i] = 1

\* an Ok return over an input longer than the cap that repeats a height
C12_Witness ==
    /\ fret = "Ok"
    /\ Len(block_range) > MAX_CONCURRENT
    /\ block_range[1] = block_range[2]
    /\ \A i \in 1..Len(block_range) : queried[i] = 1

\* C13: at the return no issued query is in flight: an Ok return has joined
\* every issued query, an error return has dropped the JoinSet and with it every
\* task still in it.
C13_NothingInFlightAtReturn ==
    fpc = "done" =>
        /\ RunningCount = 0
        /\ ready = <<>>
        /\ fret = "Ok" => (Len(joined) = next /\ next = Len(block_range) /\ abandoned = 0)
        /\ fret = "Err" => abandoned <= next - Len(joined)

\* an error return that abandoned outstanding queries
C13_Witness ==
    /\ fret = "Err"
    /\ abandoned > 1
    /\ RunningCount = 0
    /\ ready = <<>>

\* C16: the records collected are the outputs join_next handed over, in that
\* order, and an Ok return holds exactly them in that order.
C16_CompletionOrder ==
    /\ Len(results) <= Len(joined)
    /\ \A i \in 1..Len(results) : results[i] = joined[i]
    /\ fret = "Ok" => returned = joined

\* an Ok return whose order differs from the order of the requested heights
C16_Witness ==
    /\ fret = "Ok"
    /\ Len(returned) = Len(block_range)
    /\ returned = joined
    /\ \E i \in 1..Len(returned) : returned[i].height # block_range[i]

SuspendedAtCap ==
    fpc = "for" /\ next < Len(block_range) /\ join_set_len >= MAX_CONCURRENT

\* C17: if every issued query eventually completes the invocation eventually
\* returns, and a producer loop suspended at the cap always gets going again
\* (the JoinSet drops below 50 or the invocation returns).
C17_EventuallyReturns ==
    /\ <>(fpc = "done")
    /\ SuspendedAtCap ~> (fpc = "done" \/ join_set_len < MAX_CONCURRENT)

\* the producer loop is suspended at the cap and no query has completed yet
C17_Witness ==
    /\ SuspendedAtCap
    /\ ready = <<>>
    /\ RunningCount = MAX_CONCURRENT
    /\ joined = <<>>

\* ------------------------------------------------------------------
\* wait_for_tx
\* ------------------------------------------------------------------
\* Time is counted in whole seconds since `start`; the system clock is taken to
\* be monotonic (start.elapsed() never fails).

\* largest check_interval considered, in seconds
MaxInterval == 25
\* a receipt query takes 0..MaxQueryDelay seconds
MaxQueryDelay == 1
\* a sleep overshoots its interval by 0..MaxLate seconds
MaxLate == 1
\* number of transaction hashes considered
MaxTx == 2
\* the ghost history keeps the first MaxHist responses of a session
MaxHist == 4

\* const WAIT_FOR_TX_TIMEOUT: Duration = Duration::from_secs(60);
WAIT_FOR_TX_TIMEOUT == 60


TxHashes == 1..MaxTx
Intervals == {0, 1, MaxInterval}
Reasons == {"reasonA", "reasonB"}
Causes == {"rateLimited", "connectionReset"}

Resp(k, e, r, c) == [kind |-> k, exec |-> e, reason |-> r, cause |-> c]
NoResp == Resp("none", "", "", "")

\* what provider.get_transaction_receipt(tx_hash).await can evaluate to
Responses ==
    {Resp("Receipt", "Succeeded", "", ""), Resp("PendingReceipt", "Succeeded", "", ""),
     Resp("NotFound", "", "", "")}
    \cup {Resp("Receipt", "Reverted", r, "") : r \in Reasons}
    \cup {Resp("PendingReceipt", "Reverted", r, "") : r \in Reasons}
    \cup {Resp("Error", "", "", c) : c \in Causes}

\* responses after which the poller waits and polls again
IsWaiting(resp) ==
    \/ resp.kind = "NotFound"
    \/ resp.kind = "PendingReceipt" /\ resp.exec = "Succeeded"

Outcome(st, r, c, tx) == [state |-> st, reason |-> r, cause |-> c, tx |-> tx]
NoOutcome == Outcome("none", "", "", 0)

\* the code only tests elapsed >= WAIT_FOR_TX_TIMEOUT: readings beyond the
\* ceiling are kept as the first value above it
Clock(t) == IF t > WAIT_FOR_TX_TIMEOUT THEN WAIT_FOR_TX_TIMEOUT + 1 ELSE t

\* variant of TimedOut comparing seconds against the ceiling in milliseconds
TimedOut_wrongUnit(t) == t >= WAIT_FOR_TX_TIMEOUT * 1000

\* variant of TimedOut that gives up one second early
TimedOut_early(t) == t >= WAIT_FOR_TX_TIMEOUT - 1

\* `if start.elapsed().unwrap() >= WAIT_FOR_TX_TIMEOUT`
TimedOut(t) == t >= WAIT_FOR_TX_TIMEOUT

\* variant of OnResponse that keeps polling after a finalized successful receipt
OnResponse_successWaits(resp, tx) ==
    CASE resp.exec = "Reverted" ->
            [pc |-> "done", out |-> Outcome("Reverted", resp.reason, "", tx)]
      [] resp.kind \in {"Receipt", "PendingReceipt", "NotFound"} ->
            [pc |-> "sleep", out |-> NoOutcome]
      [] OTHER ->
            [pc |-> "done", out |-> Outcome("TransportError", "", resp.cause, tx)]

\* variant of OnResponse that waits for finalization of a reverted pending receipt
OnResponse_pendingWaits(resp, tx) ==
    CASE resp.kind = "Receipt" /\ resp.exec = "Succeeded" ->
            [pc |-> "done", out |-> Outcome("Succeeded", "", "", tx)]
      [] resp.kind = "Receipt" /\ resp.exec = "Reverted" ->
            [pc |-> "done", out |-> Outcome("Reverted", resp.reason, "", tx)]
      [] resp.kind \in {"PendingReceipt", "NotFound"} ->
            [pc |-> "sleep", out |-> NoOutcome]
      [] OTHER ->
            [pc |-> "done", out |-> Outcome("TransportError", "", resp.cause, tx)]

\* variant of OnResponse that retries after any failed query
OnResponse_retryErrors(resp, tx) ==
    CASE resp.kind = "Receipt" /\ resp.exec = "Succeeded" ->
            [pc |-> "done", out |-> Outcome("Succeeded", "", "", tx)]
      [] resp.exec = "Reverted" ->
            [pc |-> "done", out |-> Outcome("Reverted", resp.reason, "", tx)]
      [] OTHER ->
            [pc |-> "sleep", out |-> NoOutcome]

\* variant of OnResponse that takes a pending successful receipt as confirmation
OnResponse_pendingSucceeds(resp, tx) ==
    CASE resp.kind \in {"Receipt", "PendingReceipt"} /\ resp.exec = "Succeeded" ->
            [pc |-> "done", out |-> Outcome("Succeeded", "", "", tx)]
      [] resp.kind \in {"Receipt", "PendingReceipt"} /\ resp.exec = "Reverted" ->
            [pc |-> "done", out |-> Outcome("Reverted", resp.reason, "", tx)]
      [] resp.kind = "NotFound" ->
            [pc |-> "sleep", out |-> NoOutcome]
      [] OTHER ->
            [pc |-> "done", out |-> Outcome("TransportError", "", resp.cause, tx)]

\* the match on the query's result: where the loop goes and what it returns
OnResponse(resp, tx) ==
    CASE resp.kind = "Receipt" /\ resp.exec = "Succeeded" ->
            [pc |-> "done", out |-> Outcome("Succeeded", "", "", tx)]
      [] resp.kind = "Receipt" /\ resp.exec = "Reverted" ->
            [pc |-> "done", out |-> Outcome("Reverted", resp.reason, "", tx)]
      [] resp.kind = "PendingReceipt" /\ resp.exec = "Reverted" ->
            [pc |-> "done", out |-> Outcome("Reverted", resp.reason, "", tx)]
      [] resp.kind = "PendingReceipt" /\ resp.exec = "Succeeded" ->
            [pc |-> "sleep", out |-> NoOutcome]
      [] resp.kind = "NotFound" ->
            [pc |-> "sleep", out |-> NoOutcome]
      [] OTHER ->
            [pc |-> "done", out |-> Outcome("TransportError", "", resp.cause, tx)]

WaitInit ==
    /\ tx_hash \in TxHashes
    /\ check_interval \in Intervals
    /\ elapsed = 0
    /\ wpc = "check"
    /\ outcome = NoOutcome
    /\ lastResp = NoResp
    /\ hist = <<>>
    /\ advanced = FALSE

\* top of the loop: the timeout test
TimeoutCheck ==
    /\ wpc = "check"
    /\ IF TimedOut(elapsed)
       THEN /\ wpc' = "done"
            /\ outcome' = Outcome("TimedOut", "", "", tx_hash)
       ELSE /\ wpc' = "query"
            /\ UNCHANGED outcome
    /\ advanced' = FALSE
    /\ UNCHANGED <<tx_hash, check_interval, elapsed, lastResp, hist>>
    /\ UNCHANGED NotWait

\* provider.get_transaction_receipt(tx_hash).await and the match on its result
Query ==
    /\ wpc = "query"
    /\ \E d \in 0..MaxQueryDelay, resp \in Responses :
         LET o == OnResponse(resp, tx_hash) IN
         /\ elapsed' = Clock(elapsed + d)
         /\ advanced' = (d > 0)
         /\ lastResp' = resp
         /\ hist' = IF Len(hist) < MaxHist THEN Append(hist, resp) ELSE hist
         /\ wpc' = o.pc
         /\ outcome' = o.out
    /\ UNCHANGED <<tx_hash, check_interval>>
    /\ UNCHANGED NotWait

\* tokio::time::sleep(check_interval).await
Sleep ==
    /\ wpc = "sleep"
    /\ \E late \in 0..MaxLate :
         /\ elapsed' = Clock(elapsed + check_interval + late)
         /\ advanced' = (check_interval + late > 0)
    /\ wpc' = "check"
    /\ UNCHANGED <<tx_hash, check_interval, outcome, lastResp, hist>>
    /\ UNCHANGED NotWait

\* wait_for_tx is not running
WaitIdle ==
    /\ tx_hash = 0
    /\ check_interval = 0
    /\ elapsed = 0
    /\ wpc = "idle"
    /\ outcome = NoOutcome
    /\ lastResp = NoResp
    /\ hist = <<>>
    /\ advanced = FALSE

WaitNext == TimeoutCheck \/ Query \/ Sleep


\* ------------------------------------------------------------------
\* Properties of wait_for_tx
\* ------------------------------------------------------------------

\* C5: whenever a query answers with a finalized receipt whose execution
\* succeeded, after any number of not-found and pending non-reverted answers,
\* the session ends there in Succeeded.
C5_SucceedsAfterWaiting ==
    (lastResp = Resp("Receipt", "Succeeded", "", "")) =>
        /\ wpc = "done"
        /\ outcome = Outcome("Succeeded", "", "", tx_hash)

\* not found twice, pending once, then finalized and successful
C5_Witness ==
    /\ hist = << Resp("NotFound", "", "", ""), Resp("NotFound", "", "", ""),
                 Resp("PendingReceipt", "Succeeded", "", ""),
                 Resp("Receipt", "Succeeded", "", "") >>
    /\ outcome.state = "Succeeded"
    /\ elapsed > 0

PendingReverted == lastResp.kind = "PendingReceipt" /\ lastResp.exec = "Reverted"

\* C6: a pending receipt that signals reversion ends the session in Reverted
\* with its reason in the step that received it; afterwards no time is slept
\* and no further query is made.
C6_PendingRevertImmediate ==
    /\ [](PendingReverted =>
            (wpc = "done" /\ outcome = Outcome("Reverted", lastResp.reason, "", tx_hash)))
    /\ [][PendingReverted => UNCHANGED wvars]_vars

\* a reverted pending receipt arriving after the poller had already waited
C6_Witness ==
    /\ PendingReverted
    /\ outcome.state = "Reverted"
    /\ outcome.reason = "reasonB"
    /\ Len(hist) > 1
    /\ elapsed > 0

OnlyWaiting == lastResp = NoResp \/ IsWaiting(lastResp)

\* C7: if every answer is not-found or pending non-reverted and time keeps
\* advancing, the session eventually ends in TimedOut.
C7_EventuallyTimedOut ==
    ([]OnlyWaiting /\ []<>advanced) => <>(wpc = "done" /\ outcome.state = "TimedOut")

\* a session that timed out after both not-found and pending answers
C7_Witness ==
    /\ wpc = "done"
    /\ outcome = Outcome("TimedOut", "", "", tx_hash)
    /\ \E i, j \in 1..Len(hist) :
          hist[i].kind = "NotFound" /\ hist[j].kind = "PendingReceipt"
    /\ \A i \in 1..Len(hist) : IsWaiting(hist[i])

\* C8: a query failing with anything but not-found ends the session in
\* TransportError carrying the cause and the transaction hash; the failing query
\* is the last one and nothing is retried, whatever the elapsed time.
C8_TransportErrorFinal ==
    /\ [](lastResp.kind = "Error" =>
            (wpc = "done" /\ outcome = Outcome("TransportError", "", lastResp.cause, tx_hash)))
    /\ [][lastResp.kind = "Error" => UNCHANGED wvars]_vars

\* a failing query answered when the ceiling had already been reached
C8_Witness ==
    /\ lastResp.kind = "Error"
    /\ outcome.state = "TransportError"
    /\ outcome.cause = lastResp.cause
    /\ elapsed >= WAIT_FOR_TX_TIMEOUT
    /\ Len(hist) > 1

\* C14 as stated: TimedOut is never reported while the elapsed time is at most
\* 60 seconds.
C14_Original ==
    outcome.state = "TimedOut" => elapsed > WAIT_FOR_TX_TIMEOUT

\* C14 amended: TimedOut is reported only when the elapsed time has reached the
\* 60-second ceiling (at exactly 60 seconds too), never while it is below 60.
C14_TimedOutOnlyAtCeiling ==
    outcome.state = "TimedOut" => (wpc = "done" /\ elapsed >= 60)

\* a session that timed out at exactly 60 seconds
C14_Witness ==
    /\ outcome.state = "TimedOut"
    /\ elapsed = WAIT_FOR_TX_TIMEOUT
    /\ hist # <<>>

\* C15: a finalized receipt ends the session in the step that receives it, in
\* Succeeded when its execution succeeded and in Reverted with its reason
\* otherwise, whatever the elapsed time; and the session is in Succeeded only
\* when its last query returned a finalized successful receipt.
C15_FinalizedConclusive ==
    /\ lastResp.kind = "Receipt" =>
          /\ wpc = "done"
          /\ outcome = IF lastResp.exec = "Succeeded"
                       THEN Outcome("Succeeded", "", "", tx_hash)
                       ELSE Outcome("Reverted", lastResp.reason, "", tx_hash)
    /\ outcome.state = "Succeeded" =>
          (lastResp.kind = "Receipt" /\ lastResp.exec = "Succeeded")

\* a finalized reverted receipt received when the ceiling had been reached
C15_Witness ==
    /\ lastResp.kind = "Receipt"
    /\ lastResp.exec = "Reverted"
    /\ outcome = Outcome("Reverted", lastResp.reason, "", tx_hash)
    /\ elapsed >= WAIT_FOR_TX_TIMEOUT
    /\ \E i \in 1..Len(hist) : hist[i].kind = "PendingReceipt"

\* ------------------------------------------------------------------
\* compute_contract_address
\* ------------------------------------------------------------------
\* A FieldElement is written <<a, b, c>> for the integer a*2^251 + b*2^192 + c
\* with small coefficients (|b| < 2^58, |c| < 2^191), so that the order of two
\* elements is the lexicographic order of their coefficients and subtraction is
\* coefficient-wise. The field modulus is 2^251 + 17*2^192 + 1.

\* constructor calldata has 0..MaxCalldata elements
MaxCalldata == 2
\* the small field elements 0..MaxSmallFE are among the sampled elements
MaxSmallFE == 5

FieldLess(x, y) ==
    \/ x[1] < y[1]
    \/ x[1] = y[1] /\ x[2] < y[2]
    \/ x[1] = y[1] /\ x[2] = y[2] /\ x[3] < y[3]

FieldSub(x, y) == <<x[1] - y[1], x[2] - y[2], x[3] - y[3]>>

\* FieldElement::ZERO
ZERO == <<0, 0, 0>>

\* the field modulus
FIELD_PRIME == <<1, 17, 1>>

\* Cairo string for "STARKNET_CONTRACT_ADDRESS": 0x53544152...455353, a 200-bit
\* value whose top byte 0x53 sits above 2^192; its low 192 bits are abbreviated
\* to their last byte
PREFIX_CONTRACT_ADDRESS == <<0, 83, 83>>

\* 2 ** 251 - 256
ADDR_BOUND == <<1, 0, -256>>

\* the sampled field elements, all below FIELD_PRIME: the small ones, the
\* prefix, and the neighbours of ADDR_BOUND, of 2^251 and of the modulus
FESeq ==
    [i \in 1..(MaxSmallFE + 1) |-> <<0, 0, i - 1>>] \o
    << PREFIX_CONTRACT_ADDRESS, <<0, 17, 0>>,
       <<1, 0, -257>>, <<1, 0, -256>>, <<1, 0, -255>>, <<1, 0, 0>>, <<1, 17, 0>> >>

FieldElements == {FESeq[i] : i \in 1..Len(FESeq)}

FEIndex(x) == CHOOSE i \in 1..Len(FESeq) : FESeq[i] = x

\* starknet's pedersen_hash, stood in for by a fixed non-commutative mixing
\* function over the sampled elements
pedersen_hash(x, y) ==
    FESeq[((7 * FEIndex(x) + 3 * FEIndex(y) + 1) % Len(FESeq)) + 1]

RECURSIVE HashFold(_, _)
HashFold(acc, data) ==
    IF data = <<>> THEN acc
    ELSE HashFold(pedersen_hash(acc, Head(data)), Tail(data))

\* starknet::core::crypto::compute_hash_on_elements: the elements are chained
\* from zero, then the length is hashed in
compute_hash_on_elements(data) ==
    pedersen_hash(HashFold(ZERO, data), <<0, 0, Len(data)>>)

\* FieldElement's `%`: the remainder of the integer division
RECURSIVE FieldRem(_, _)
FieldRem(x, m) == IF FieldLess(x, m) THEN x ELSE FieldRem(FieldSub(x, m), m)

\* variant of compute_contract_address without the final reduction
compute_contract_address_noRem(s, c, calldata) ==
    compute_hash_on_elements(
        <<PREFIX_CONTRACT_ADDRESS, ZERO, s, c, compute_hash_on_elements(calldata)>>)

\* variant of compute_contract_address with salt and class hash exchanged
compute_contract_address_swapped(s, c, calldata) ==
    FieldRem(compute_hash_on_elements(
        <<PREFIX_CONTRACT_ADDRESS, ZERO, c, s, compute_hash_on_elements(calldata)>>),
        ADDR_BOUND)

\* pub fn compute_contract_address
compute_contract_address(s, c, calldata) ==
    FieldRem(compute_hash_on_elements(
        <<PREFIX_CONTRACT_ADDRESS, ZERO, s, c, compute_hash_on_elements(calldata)>>),
        ADDR_BOUND)


Calldatas == UNION {[1..n -> FieldElements] : n \in 0..MaxCalldata}

AddrInit ==
    /\ salt \in FieldElements
    /\ class_hash \in FieldElements
    /\ constructor_calldata \in Calldatas
    /\ address = ZERO
    /\ apc = "call"

Derive ==
    /\ apc = "call"
    /\ address' = compute_contract_address(salt, class_hash, constructor_calldata)
    /\ apc' = "done"
    /\ UNCHANGED <<salt, class_hash, constructor_calldata>>
    /\ UNCHANGED NotAddr

AddrNext == Derive

\* ------------------------------------------------------------------
\* Properties of compute_contract_address
\* ------------------------------------------------------------------

\* the hash of the five elements before the reduction
RawAddressHash ==
    compute_hash_on_elements(
        <<PREFIX_CONTRACT_ADDRESS, ZERO, salt, class_hash,
          compute_hash_on_elements(constructor_calldata)>>)

\* C9: for every salt, class hash and calldata (the empty one included) the
\* returned address is a non-negative value strictly below 2^251 - 256.
C9_BelowAddrBound ==
    apc = "done" =>
        /\ FieldLess(address, <<1, 0, -256>>)
        /\ ~FieldLess(address, ZERO)

\* an address whose hash was at or above the bound, for empty calldata
C9_Witness ==
    /\ apc = "done"
    /\ constructor_calldata = <<>>
    /\ ~FieldLess(RawAddressHash, ADDR_BOUND)
    /\ FieldLess(RawAddressHash, FIELD_PRIME)
    /\ address = FieldSub(RawAddressHash, ADDR_BOUND)

\* C10: the address is the chained hash of exactly [PREFIX, 0, salt,
\* class_hash, H(calldata)] in that order, reduced modulo ADDR_BOUND, where H
\* chains pedersen_hash from zero over the elements and then hashes in their
\* number.
C10_HashOfFiveElements ==
    apc = "done" =>
        LET H(data) == pedersen_hash(HashFold(ZERO, data), <<0, 0, Len(data)>>)
            h1 == pedersen_hash(ZERO, PREFIX_CONTRACT_ADDRESS)
            h2 == pedersen_hash(h1, ZERO)
            h3 == pedersen_hash(h2, salt)
            h4 == pedersen_hash(h3, class_hash)
            h5 == pedersen_hash(h4, H(constructor_calldata))
            h == pedersen_hash(h5, <<0, 0, 5>>)
        IN address = IF FieldLess(h, ADDR_BOUND) THEN h ELSE FieldSub(h, ADDR_BOUND)

\* an address derived from distinct salt and class hash and two distinct
\* calldata elements
C10_Witness ==
    /\ apc = "done"
    /\ salt # class_hash
    /\ Len(constructor_calldata) = 2
    /\ constructor_calldata[1] # constructor_calldata[2]
    /\ address # ZERO

\* ------------------------------------------------------------------
\* shoot and make_report_over_bench
\* ------------------------------------------------------------------
\* The node's block height never decreases; it starts at 0..MaxStartHeight and
\* grows up to MaxChain.
MaxStartHeight == 1
MaxChain == 4

\* the benchmarks, in the order shoot runs them
Erc20 == "Erc20 Transfers"
Erc721 == "Erc721 Mints"
Benches == {Erc20, Erc721}

\* variant of BenchWindow that starts the range at start_block itself
BenchWindow_inclusive(start, end) == <<start, end>>

\* report.with_block_range(rpc_client, start_block + 1, end_block)
BenchWindow(start, end) == <<start + 1, end>>

\* the block heights of a range (first, last), both included
BlocksOf(w) == IF w = <<>> THEN {} ELSE w[1]..w[2]

\* where shoot goes after the ERC20 block
AfterErc20 == IF run_erc721 THEN "erc721_start" ELSE "end"

ShootInit ==
    /\ chain_height \in 0..MaxStartHeight
    /\ run_erc20 \in BOOLEAN
    /\ run_erc721 \in BOOLEAN
    /\ spc = "start"
    /\ start_block = 0
    /\ end_block = 0
    /\ bench_start = 0
    /\ windows = [b \in Benches |-> <<>>]
    /\ sret = "none"

\* the chain produces a block
Mine ==
    /\ spc \notin {"idle", "done"}
    /\ chain_height < MaxChain
    /\ chain_height' = chain_height + 1
    /\ UNCHANGED <<run_erc20, run_erc721, spc, start_block, end_block, bench_start,
                   windows, sret>>
    /\ UNCHANGED NotShoot

\* let start_block = shooter.rpc_client().block_number().await?;
ReadStart ==
    /\ spc = "start"
    /\ start_block' = chain_height
    /\ spc' = IF run_erc20 THEN "erc20_start" ELSE AfterErc20
    /\ UNCHANGED <<chain_height, run_erc20, run_erc721, end_block, bench_start, windows, sret>>
    /\ UNCHANGED NotShoot

\* make_report_over_bench: let start_block = rpc_client.block_number().await?;
BenchStart ==
    /\ spc \in {"erc20_start", "erc721_start"}
    /\ bench_start' = chain_height
    /\ spc' = IF spc = "erc20_start" THEN "erc20_run" ELSE "erc721_run"
    /\ UNCHANGED <<chain_height, run_erc20, run_erc721, start_block, end_block, windows, sret>>
    /\ UNCHANGED NotShoot

\* make_report_over_bench: let goose_metrics = bench.await?;
BenchRun ==
    /\ spc \in {"erc20_run", "erc721_run"}
    /\ spc' = IF spc = "erc20_run" THEN "erc20_end" ELSE "erc721_end"
    /\ UNCHANGED <<chain_height, run_erc20, run_erc721, start_block, end_block,
                   bench_start, windows, sret>>
    /\ UNCHANGED NotShoot

\* make_report_over_bench: let end_block = rpc_client.block_number().await?;
\* report.with_block_range(rpc_client, start_block + 1, end_block)
BenchEnd ==
    /\ spc \in {"erc20_end", "erc721_end"}
    /\ LET b == IF spc = "erc20_end" THEN Erc20 ELSE Erc721 IN
         windows' = [windows EXCEPT ![b] = BenchWindow(bench_start, chain_height)]
    /\ spc' = IF spc = "erc20_end" THEN AfterErc20 ELSE "end"
    /\ UNCHANGED <<chain_height, run_erc20, run_erc721, start_block, end_block,
                   bench_start, sret>>
    /\ UNCHANGED NotShoot

\* let end_block = ...block_number().await?; with_block_range(.., start_block, end_block)
ReadEnd ==
    /\ spc = "end"
    /\ end_block' = chain_height
    /\ spc' = "done"
    /\ sret' = "Ok"
    /\ UNCHANGED <<chain_height, run_erc20, run_erc721, start_block, bench_start, windows>>
    /\ UNCHANGED NotShoot

\* any of the awaited calls fails and `?` leaves shoot
ShootFail ==
    /\ spc \notin {"idle", "done"}
    /\ spc' = "done"
    /\ sret' = "Err"
    /\ UNCHANGED <<chain_height, run_erc20, run_erc721, start_block, end_block,
                   bench_start, windows>>
    /\ UNCHANGED NotShoot

ShootNext == Mine \/ ReadStart \/ BenchStart \/ BenchRun \/ BenchEnd \/ ReadEnd \/ ShootFail

\* shoot is not running
ShootIdle ==
    /\ chain_height = 0
    /\ run_erc20 = FALSE
    /\ run_erc721 = FALSE
    /\ spc = "idle"
    /\ start_block = 0
    /\ end_block = 0
    /\ bench_start = 0
    /\ windows = [b \in Benches |-> <<>>]
    /\ sret = "none"

\* ------------------------------------------------------------------
\* Properties of shoot
\* ------------------------------------------------------------------

\* C19: with a block height that never decreases, the ranges [start+1, end]
\* measured for the ERC20 and the ERC721 benchmark are disjoint, ERC20's lying
\* entirely before ERC721's, and each lies within [start_block, end_block] of
\* the report over all benchmarks.
C19_WindowsDisjointAndContained ==
    /\ BlocksOf(windows[Erc20]) \cap BlocksOf(windows[Erc721]) = {}
    /\ \A x \in BlocksOf(windows[Erc20]), y \in BlocksOf(windows[Erc721]) : x < y
    /\ windows[Erc721] # <<>> /\ run_erc20 => windows[Erc20] # <<>>
    /\ \A b \in Benches : \A x \in BlocksOf(windows[b]) : x > start_block
    /\ sret = "Ok" =>
          \A b \in Benches : BlocksOf(windows[b]) \subseteq start_block..end_block

\* both benchmarks measured a non-empty range, ERC721 starting at the very
\* height at which ERC20 ended
C19_Witness ==
    /\ sret = "Ok"
    /\ BlocksOf(windows[Erc20]) # {}
    /\ BlocksOf(windows[Erc721]) # {}
    /\ windows[Erc721][1] = windows[Erc20][2] + 1
    /\ start_block < end_block

\* ------------------------------------------------------------------
\* sanitize_filename
\* ------------------------------------------------------------------
\* A string is a sequence of characters; each character is named and has the
\* width of its UTF-8 encoding.

\* short inputs have every length 0..MaxShortStr and every content
MaxShortStr == 2
\* long inputs have max_length - MaxAround .. max_length + MaxAround characters
MaxAround == 2

\* let max_length = 255;
max_length == 255

\* the characters inputs are made of: a, A, /, space, line feed, e-acute (2
\* bytes), E-acute (2 bytes), the euro sign (3 bytes), U+0085 next line (a
\* 2-byte control character) and U+0130 capital I with dot (2 bytes)
Alphabet == {"a", "A", "/", " ", "LF", "e_acute", "E_ACUTE", "euro", "NEL", "I_DOT"}

\* len_utf8 of a character; comb_dot is U+0307, produced by lower-casing U+0130
CharBytes(c) ==
    CASE c \in {"e_acute", "E_ACUTE", "NEL", "I_DOT", "comb_dot"} -> 2
      [] c = "euro" -> 3
      [] OTHER -> 1

\* char::is_control
IsControl(c) == c \in {"LF", "NEL"}

IsUppercase(c) == c \in {"A", "E_ACUTE", "I_DOT"}

\* let invalid_chars: &[char] = &['/', '\\', ':', '*', '?', '"', '<', '>', '|', ' '];
invalid_chars == {"/", "\\", ":", "*", "?", "\"", "<", ">", "|", " "}

\* the lower-case mapping of one character
LowerChar(c) ==
    CASE c = "A" -> <<"a">>
      [] c = "E_ACUTE" -> <<"e_acute">>
      [] c = "I_DOT" -> <<"i", "comb_dot">>
      [] OTHER -> <<c>>

\* str::to_lowercase: the lower-case mappings of the characters, concatenated
\* (evaluated by halving the string)
RECURSIVE to_lowercase(_)
to_lowercase(str) ==
    IF str = <<>> THEN <<>>
    ELSE IF Len(str) = 1 THEN LowerChar(str[1])
    ELSE LET h == Len(str) \div 2 IN
         to_lowercase(SubSeq(str, 1, h)) \o to_lowercase(SubSeq(str, h + 1, Len(str)))

\* .map(|c| if invalid_chars.contains(&c) || c.is_control() { '_' } else { c })
ReplaceInvalid(str) ==
    [i \in 1..Len(str) |->
        IF str[i] \in invalid_chars \/ IsControl(str[i]) THEN "_" ELSE str[i]]

\* str::len: the length in bytes (evaluated by halving the string)
RECURSIVE ByteLen(_)
ByteLen(str) ==
    IF str = <<>> THEN 0
    ELSE IF Len(str) = 1 THEN CharBytes(str[1])
    ELSE LET h == Len(str) \div 2 IN
         ByteLen(SubSeq(str, 1, h)) + ByteLen(SubSeq(str, h + 1, Len(str)))

\* str::is_char_boundary: byte offset n is the start of a character or the end
IsCharBoundary(str, n) == \E i \in 0..Len(str) : ByteLen(SubSeq(str, 1, i)) = n

\* &str[..n]: the first n bytes, a panic when byte n is inside a character
SliceTo(str, n) ==
    IF IsCharBoundary(str, n)
    THEN [panic |-> FALSE,
          value |-> SubSeq(str, 1, CHOOSE i \in 0..Len(str) : ByteLen(SubSeq(str, 1, i)) = n)]
    ELSE [panic |-> TRUE, value |-> <<>>]

\* pub fn sanitize_filename
sanitize_filename(str) ==
    LET replaced == ReplaceInvalid(to_lowercase(str)) IN
    IF ByteLen(replaced) > max_length
    THEN SliceTo(replaced, max_length)
    ELSE [panic |-> FALSE, value |-> replaced]

ShortStrings == UNION {[1..n -> Alphabet] : n \in 0..MaxShortStr}

\* n characters, all "a" except character p, which is c
LongString(n, p, c) == [i \in 1..n |-> IF i = p THEN c ELSE "a"]

LongStrings ==
    UNION {{LongString(n, p, c) : p \in {1, n}, c \in Alphabet} :
              n \in (max_length - MaxAround)..(max_length + MaxAround)}

SanitizeInit ==
    /\ input \in ShortStrings \cup LongStrings
    /\ sanitized = [panic |-> FALSE, value |-> <<>>]
    /\ zpc = "call"

SanitizeCall ==
    /\ zpc = "call"
    /\ sanitized' = sanitize_filename(input)
    /\ zpc' = "done"
    /\ UNCHANGED input
    /\ UNCHANGED NotSanitize

SanitizeNext == SanitizeCall

\* sanitize_filename is not running
SanitizeIdle ==
    /\ input = <<>>
    /\ sanitized = [panic |-> FALSE, value |-> <<>>]
    /\ zpc = "idle"

\* ------------------------------------------------------------------
\* Properties of sanitize_filename
\* ------------------------------------------------------------------

\* C20: for every input the call returns, without failing, a string of at most
\* 255 bytes that holds no upper-case letter, no character of the invalid set
\* and no control character.
C20_SanitizedAndTruncated ==
    zpc = "done" =>
        /\ ~sanitized.panic
        /\ ByteLen(sanitized.value) <= 255
        /\ \A i \in 1..Len(sanitized.value) :
              /\ ~IsUppercase(sanitized.value[i])
              /\ sanitized.value[i] \notin invalid_chars
              /\ ~IsControl(sanitized.value[i])

\* compute_contract_address is not running
AddrIdle ==
    /\ salt = ZERO
    /\ class_hash = ZERO
    /\ constructor_calldata = <<>>
    /\ address = ZERO
    /\ apc = "idle"

\* ------------------------------------------------------------------
\* Specifications
\* ------------------------------------------------------------------
InitFetch == FetchInit /\ WaitIdle /\ AddrIdle /\ ShootIdle /\ SanitizeIdle
SpecFetch == InitFetch /\ [][FetchNext]_vars

\* the inputs of the liveness check: every short one and the long ones of one height
LiveInputs ==
    SmallInputs \cup {BigInput(n, 0) : n \in MAX_CONCURRENT..(MAX_CONCURRENT + MaxOver)}

InitFetchLive == block_range \in LiveInputs /\ InitFetch

\* the fetcher's task is always scheduled again, and every issued query
\* eventually completes
SpecFetchLive ==
    /\ InitFetchLive /\ [][FetchNext]_vars
    /\ WF_vars(Spawn \/ ForDone \/ JoinAtCap \/ JoinDrain \/ ReturnOk)
    /\ WF_vars(Complete)

InitWait == WaitInit /\ FetchIdle /\ AddrIdle /\ ShootIdle /\ SanitizeIdle
SpecWait == InitWait /\ [][WaitNext]_vars

\* the polling task is always scheduled again
SpecWaitLive == SpecWait /\ WF_vars(WaitNext)

InitAddr == AddrInit /\ FetchIdle /\ WaitIdle /\ ShootIdle /\ SanitizeIdle
SpecAddr == InitAddr /\ [][AddrNext]_vars

InitShoot == ShootInit /\ FetchIdle /\ WaitIdle /\ AddrIdle /\ SanitizeIdle
SpecShoot == InitShoot /\ [][ShootNext]_vars

InitSanitize == SanitizeInit /\ FetchIdle /\ WaitIdle /\ AddrIdle /\ ShootIdle
SpecSanitize == InitSanitize /\ [][SanitizeNext]_vars

====
